---- MODULE Spec2Model ----
(***************************************************************************)
(* Model of main.py: the FastAPI relay with the POST /chat handler, the    *)
(* GET/HEAD /ping health check and the module-level configuration.         *)
(*                                                                         *)
(* Texts are sequences of one-character strings, so that the regular       *)
(* expressions of the extractor and json.loads work on characters.         *)
(***************************************************************************)
EXTENDS Integers, Sequences, FiniteSets, TLC

(***************************************************************************)
(* Python's re, as a backtracking matcher.  The table of a pattern over a  *)
(* text t gives, for every start i in 1..Len(t)+1, the positions at which  *)
(* a match of the pattern starting at i can end, in the order in which the *)
(* backtracking engine tries them (a greedy quantifier first takes as many *)
(* iterations as it can).  The match re.search reports is the first end of *)
(* the leftmost start that has one.  A table is kept as a sequence         *)
(* (SubSeq(f, 1, N) is the function f over 1..N as a sequence), and the    *)
(* tables are filled by halving the range of positions, which keeps the    *)
(* evaluation shallow.                                                     *)
(***************************************************************************)

\* f[lo] \o ... \o f[hi]
RECURSIVE ConcatRange(_, _, _)
ConcatRange(f, lo, hi) ==
    IF lo > hi THEN <<>>
    ELSE IF lo = hi THEN f[lo]
    ELSE ConcatRange(f, lo, (lo + hi) \div 2)
         \o ConcatRange(f, (lo + hi) \div 2 + 1, hi)

\* the ends of the pattern whose table is B, started at each position of es
EndsFrom(es, B) == ConcatRange([j \in 1..Len(es) |-> B[es[j]]], 1, Len(es))

\* the positions of es that lie after i
After(es, i) ==
    ConcatRange([j \in 1..Len(es) |-> IF es[j] > i THEN <<es[j]>> ELSE <<>>], 1, Len(es))

\* a pattern of one character: hits are the positions of the characters it
\* matches
StepTable(N, hits) ==
    SubSeq([i \in 1..N |-> IF i \in hits THEN <<i + 1>> ELSE <<>>], 1, N)

\* c, [^cs] and . (which matches a newline only with re.DOTALL)
ReLit(t, c) == StepTable(Len(t) + 1, {i \in 1..Len(t) : t[i] = c})
ReNotIn(t, cs) == StepTable(Len(t) + 1, {i \in 1..Len(t) : t[i] \notin cs})
ReDot(t, dotall) == StepTable(Len(t) + 1, {i \in 1..Len(t) : dotall \/ t[i] # "\n"})

\* a b : a, then b from where a ended
ReCat(A, B) == SubSeq([i \in 1..Len(A) |-> EndsFrom(A[i], B)], 1, Len(B))

\* a|b : a first, then b
ReAlt(A, B) == SubSeq([i \in 1..Len(A) |-> A[i] \o B[i]], 1, Len(B))

\* the table of a* for the starts lo.., given its entries S for the starts
\* after hi: a* at i is a at i (an iteration that consumes something)
\* followed by a*, or nothing (S is looked at first, so that the entries
\* after hi are filled before the ones that use them)
RECURSIVE StarFill(_, _, _, _)
StarFill(A, S, lo, hi) ==
    IF Len(S) >= 0 /\ lo = hi
    THEN LET es == After(A[lo], lo)
         IN <<ConcatRange([j \in 1..Len(es) |-> S[es[j] - lo]], 1, Len(es)) \o <<lo>>>> \o S
    ELSE StarFill(A, StarFill(A, S, (lo + hi) \div 2 + 1, hi), lo, (lo + hi) \div 2)

\* a*
ReStar(A) == StarFill(A, <<>>, 1, Len(A))

NoMatch == [found |-> FALSE, start |-> 0, end |-> 0, re |-> ""]

\* re.search for the pattern whose table is ends: the match object, or None
\* (NoMatch)
ReSearch(ends) ==
    LET starts == {i \in 1..Len(ends) : ends[i] # <<>>}
    IN IF starts = {} THEN NoMatch
       ELSE LET s == CHOOSE i \in starts : \A j \in starts : i <= j
            IN [found |-> TRUE, start |-> s, end |-> ends[s][1], re |-> ""]

\* m.group(): the matched text (end is the position after the last character)
Group(t, m) == SubSeq(t, m.start, m.end - 1)

\* NotBrace as it would be if the class also left out the line break (as "."
\* does without re.DOTALL)
NotBraceOnLine(t) == ReNotIn(t, {"{", "}", "\n"})

\* [^{}]
NotBrace(t) == ReNotIn(t, {"{", "}"})
\* \{ inner* \}
Braced(t, inner) == ReCat(ReLit(t, "{"), ReCat(ReStar(inner), ReLit(t, "}")))

\* r"\{[^{}]*\}" : the innermost level of the nested pattern
Level3(t) == Braced(t, NotBrace(t))
\* r"\{(?:[^{}]|\{[^{}]*\})*\}"
Level2(t) == Braced(t, ReAlt(NotBrace(t), Level3(t)))
\* r"\{(?:[^{}]|\{(?:[^{}]|\{[^{}]*\})*\})*\}"
BalancedRe(t) == Braced(t, ReAlt(NotBrace(t), Level2(t)))
\* r"\{.*\}" with re.DOTALL
GreedyRe(t) == Braced(t, ReDot(t, TRUE))

(***************************************************************************)
(* Python values.  Every value is a record of one shape, so that any two   *)
(* can be compared: tag names the type, s holds a str's characters, n an   *)
(* int's value or a finite float's value in thousandths, items a list's    *)
(* elements or a dict's entries in insertion order (k is the key of a dict *)
(* entry and is empty in a list).                                          *)
(***************************************************************************)
PyVal(tag, s, n, items) == [tag |-> tag, s |-> s, n |-> n, items |-> items]
PyNone == PyVal("None", <<>>, 0, <<>>)
PyTrue == PyVal("bool", <<>>, 1, <<>>)
PyFalse == PyVal("bool", <<>>, 0, <<>>)
PyStrOf(s) == PyVal("str", s, 0, <<>>)
PyInt(n) == PyVal("int", <<>>, n, <<>>)
\* a finite float, n thousandths
PyFloat(n) == PyVal("float", <<>>, n, <<>>)
PyInf == PyVal("inf", <<>>, 1, <<>>)
PyNegInf == PyVal("inf", <<>>, -1, <<>>)
PyNaN == PyVal("nan", <<>>, 0, <<>>)
PyList(vs) == PyVal("list", <<>>, 0, [i \in 1..Len(vs) |-> [k |-> <<>>, v |-> vs[i]]])
PyDict(entries) == PyVal("dict", <<>>, 0, entries)

HasKey(d, k) == \E i \in 1..Len(d.items) : d.items[i].k = k
Lookup(d, k) == d.items[CHOOSE i \in 1..Len(d.items) : d.items[i].k = k].v
\* d[k] = v of a dict under construction: a repeated key keeps its place
DictSet(entries, k, v) ==
    IF \E i \in 1..Len(entries) : entries[i].k = k
    THEN [i \in 1..Len(entries) |->
             IF entries[i].k = k THEN [k |-> k, v |-> v] ELSE entries[i]]
    ELSE Append(entries, [k |-> k, v |-> v])

(***************************************************************************)
(* json.loads: the scanner of json.scanner and json.decoder, on a sequence *)
(* of characters.  A result is [ok, v, end]: the value and the position    *)
(* after it.  The model's texts hold no backslash, so the string scanner   *)
(* has no escape sequences.                                                *)
(***************************************************************************)
At(s, i) == IF i \in 1..Len(s) THEN s[i] ELSE ""
StartsWith(s, i, w) == i + Len(w) - 1 <= Len(s) /\ SubSeq(s, i, i + Len(w) - 1) = w

Whitespace == {" ", "\t", "\n", "\r"}
DigitChars == <<"0", "1", "2", "3", "4", "5", "6", "7", "8", "9">>
Digits == {DigitChars[k] : k \in 1..Len(DigitChars)}
DigitVal(c) == (CHOOSE k \in 1..Len(DigitChars) : DigitChars[k] = c) - 1

RECURSIVE SkipWs(_, _)
SkipWs(s, i) == IF At(s, i) \in Whitespace THEN SkipWs(s, i + 1) ELSE i

RECURSIVE DigitRunEnd(_, _)
DigitRunEnd(s, i) == IF At(s, i) \in Digits THEN DigitRunEnd(s, i + 1) ELSE i

\* the number written by the digits s[a..b]
RECURSIVE DigitsVal(_, _, _)
DigitsVal(s, a, b) ==
    IF b < a THEN 0 ELSE DigitsVal(s, a, b - 1) * 10 + DigitVal(s[b])

RECURSIVE Pow10(_)
Pow10(k) == IF k <= 0 THEN 1 ELSE 10 * Pow10(k - 1)

Failed == [ok |-> FALSE, v |-> PyNone, end |-> 0]
Scanned(v, end) == [ok |-> TRUE, v |-> v, end |-> end]

\* float(integer + frac + exp) of a literal whose integer part is intv, whose
\* fraction digits are s[fa..fb] and whose exponent is e: thousandths, the
\* digits after the third dropped; beyond the range of a double, inf
FloatOfParts(neg, intv, s, fa, fb, e) ==
    LET nfrac == IF fb < fa THEN 0 ELSE fb - fa + 1
        kept == IF nfrac > 3 THEN 3 ELSE nfrac
        mant == intv * 1000 + DigitsVal(s, fa, fa + kept - 1) * Pow10(3 - kept)
        sign == IF neg THEN -1 ELSE 1
    IN IF mant = 0 THEN PyFloat(0)
       ELSE IF e > 308 THEN (IF neg THEN PyNegInf ELSE PyInf)
       ELSE IF e >= 0 THEN PyFloat(sign * mant * Pow10(e))
       ELSE PyFloat(sign * (mant \div Pow10(-e)))

\* NUMBER_RE.match(s, idx):
\* (-?(?:0|[1-9][0-9]*))(\.[0-9]+)?([eE][-+]?[0-9]+)?
NumberMatch(s, idx) ==
    LET neg == At(s, idx) = "-"
        p1 == IF neg THEN idx + 1 ELSE idx
        p2 == IF At(s, p1) = "0" THEN p1 + 1 ELSE DigitRunEnd(s, p1)
        hasFrac == At(s, p2) = "." /\ At(s, p2 + 1) \in Digits
        p3 == IF hasFrac THEN DigitRunEnd(s, p2 + 1) ELSE p2
        q == IF At(s, p3 + 1) \in {"+", "-"} THEN p3 + 2 ELSE p3 + 1
        hasExp == At(s, p3) \in {"e", "E"} /\ At(s, q) \in Digits
        p4 == IF hasExp THEN DigitRunEnd(s, q) ELSE p3
        intv == DigitsVal(s, p1, p2 - 1)
        expv == IF ~hasExp THEN 0
                ELSE IF At(s, p3 + 1) = "-" THEN -DigitsVal(s, q, p4 - 1)
                ELSE DigitsVal(s, q, p4 - 1)
    IN IF p2 = p1 THEN Failed
       ELSE IF ~hasFrac /\ ~hasExp
            THEN Scanned(PyInt(IF neg THEN -intv ELSE intv), p2)
       ELSE Scanned(FloatOfParts(neg, intv, s, p2 + 1, p3 - 1, expv), p4)

\* the closing quote of the string whose first character is at i; 0 when the
\* string is unterminated or holds a control character (strict mode)
RECURSIVE StringEnd(_, _)
StringEnd(s, i) ==
    IF i > Len(s) THEN 0
    ELSE IF s[i] = "\"" THEN i
    ELSE IF s[i] \in {"\n", "\t", "\r"} THEN 0
    ELSE StringEnd(s, i + 1)

\* scanstring(s, begin): begin is the position after the opening quote
ScanString(s, begin) ==
    LET e == StringEnd(s, begin)
    IN IF e = 0 THEN Failed ELSE Scanned(PyStrOf(SubSeq(s, begin, e - 1)), e + 1)

RECURSIVE ScanOnce(_, _)
RECURSIVE JSONObject(_, _)
RECURSIVE ObjectLoop(_, _, _)
RECURSIVE JSONArray(_, _)
RECURSIVE ArrayLoop(_, _, _)

\* one "key": value member, then "," and the next or "}"; end is the position
\* after the key's opening quote
ObjectLoop(s, end, pairs) ==
    LET key == ScanString(s, end)
        e1 == IF At(s, key.end) # ":" THEN SkipWs(s, key.end) ELSE key.end
        val == ScanOnce(s, SkipWs(s, e1 + 1))
        pairs2 == DictSet(pairs, key.v.s, val.v)
        e3 == SkipWs(s, val.end)
        e4 == SkipWs(s, e3 + 1)
    IN IF ~key.ok THEN Failed
       ELSE IF At(s, e1) # ":" THEN Failed
       ELSE IF ~val.ok THEN Failed
       ELSE IF At(s, e3) = "}" THEN Scanned(PyDict(pairs2), e3 + 1)
       ELSE IF At(s, e3) # "," THEN Failed
       ELSE IF At(s, e4) # "\"" THEN Failed
       ELSE ObjectLoop(s, e4 + 1, pairs2)

\* JSONObject((s, end)): end is the position after "{"
JSONObject(s, end) ==
    LET e1 == IF At(s, end) # "\"" THEN SkipWs(s, end) ELSE end
    IN IF At(s, e1) = "}" THEN Scanned(PyDict(<<>>), e1 + 1)
       ELSE IF At(s, e1) # "\"" THEN Failed
       ELSE ObjectLoop(s, e1 + 1, <<>>)

ArrayLoop(s, end, values) ==
    LET val == ScanOnce(s, end)
        e1 == SkipWs(s, val.end)
    IN IF ~val.ok THEN Failed
       ELSE IF At(s, e1) = "]" THEN Scanned(PyList(Append(values, val.v)), e1 + 1)
       ELSE IF At(s, e1) # "," THEN Failed
       ELSE ArrayLoop(s, SkipWs(s, e1 + 1), Append(values, val.v))

\* JSONArray((s, end)): end is the position after "["
JSONArray(s, end) ==
    LET e1 == SkipWs(s, end)
    IN IF At(s, e1) = "]" THEN Scanned(PyList(<<>>), e1 + 1)
       ELSE ArrayLoop(s, e1, <<>>)

\* scan_once(s, idx)
ScanOnce(s, idx) ==
    LET c == At(s, idx)
        num == NumberMatch(s, idx)
    IN IF c = "" THEN Failed
       ELSE IF c = "\"" THEN ScanString(s, idx + 1)
       ELSE IF c = "{" THEN JSONObject(s, idx + 1)
       ELSE IF c = "[" THEN JSONArray(s, idx + 1)
       ELSE IF StartsWith(s, idx, <<"n", "u", "l", "l">>) THEN Scanned(PyNone, idx + 4)
       ELSE IF StartsWith(s, idx, <<"t", "r", "u", "e">>) THEN Scanned(PyTrue, idx + 4)
       ELSE IF StartsWith(s, idx, <<"f", "a", "l", "s", "e">>)
            THEN Scanned(PyFalse, idx + 5)
       ELSE IF num.ok THEN num
       ELSE IF StartsWith(s, idx, <<"N", "a", "N">>) THEN Scanned(PyNaN, idx + 3)
       ELSE IF StartsWith(s, idx, <<"I", "n", "f", "i", "n", "i", "t", "y">>)
            THEN Scanned(PyInf, idx + 8)
       ELSE IF StartsWith(s, idx, <<"-", "I", "n", "f", "i", "n", "i", "t", "y">>)
            THEN Scanned(PyNegInf, idx + 9)
       ELSE Failed

\* json.loads(s): ok is FALSE where it raises JSONDecodeError
JsonLoads(s) ==
    LET r == ScanOnce(s, SkipWs(s, 1))
    IN IF ~r.ok THEN Failed
       ELSE IF SkipWs(s, r.end) # Len(s) + 1 THEN Failed
       ELSE r

(***************************************************************************)
(* The Python operations the handler applies to the decoded values.  An    *)
(* operation that can raise gives [ok, v, exc]: exc names the exception.   *)
(***************************************************************************)
Raised(exc) == [ok |-> FALSE, v |-> PyNone, exc |-> exc]
Value(v) == [ok |-> TRUE, v |-> v, exc |-> ""]

\* bool(v)
Truthy(v) ==
    CASE v.tag = "None" -> FALSE
      [] v.tag \in {"bool", "int", "float"} -> v.n # 0
      [] v.tag \in {"inf", "nan"} -> TRUE
      [] v.tag = "str" -> v.s # <<>>
      [] v.tag \in {"list", "dict"} -> v.items # <<>>

\* whether w occurs in s as a substring
Occurs(w, s) == \E i \in 1..(Len(s) + 1) : StartsWith(s, i, w)

\* key in v, for a str key
Contains(key, v) ==
    CASE v.tag = "dict" -> Value(IF HasKey(v, key) THEN PyTrue ELSE PyFalse)
      [] v.tag = "list" ->
           Value(IF \E i \in 1..Len(v.items) : v.items[i].v = PyStrOf(key)
                 THEN PyTrue ELSE PyFalse)
      [] v.tag = "str" -> Value(IF Occurs(key, v.s) THEN PyTrue ELSE PyFalse)
      [] OTHER -> Raised("TypeError")

\* v[key], for a str key
SubscriptKey(v, key) ==
    CASE v.tag = "dict" ->
           IF HasKey(v, key) THEN Value(Lookup(v, key)) ELSE Raised("KeyError")
      [] OTHER -> Raised("TypeError")

\* v[0]
SubscriptZero(v) ==
    CASE v.tag = "list" ->
           IF v.items # <<>> THEN Value(v.items[1].v) ELSE Raised("IndexError")
      [] v.tag = "str" ->
           IF v.s # <<>> THEN Value(PyStrOf(<<v.s[1]>>)) ELSE Raised("IndexError")
      [] v.tag = "dict" -> Raised("KeyError")
      [] OTHER -> Raised("TypeError")

\* v.get(key, default): only a dict has the method
GetMethod(v, key, default) ==
    IF v.tag # "dict" THEN Raised("AttributeError")
    ELSE Value(IF HasKey(v, key) THEN Lookup(v, key) ELSE default)

RECURSIVE NatChars(_)
NatChars(n) ==
    IF n < 10 THEN <<DigitChars[n + 1]>>
    ELSE NatChars(n \div 10) \o <<DigitChars[(n % 10) + 1]>>
IntChars(n) == IF n < 0 THEN <<"-">> \o NatChars(-n) ELSE NatChars(n)

\* repr of a finite float of n thousandths: the shortest decimal, with at
\* least one digit after the point
FloatChars(n) ==
    LET a == IF n < 0 THEN -n ELSE n
        f == a % 1000
        frac == IF f = 0 THEN <<"0">>
                ELSE IF f % 100 = 0 THEN NatChars(f \div 100)
                ELSE IF f % 10 = 0
                     THEN (IF f < 100 THEN <<"0">> ELSE <<>>) \o NatChars(f \div 10)
                ELSE (IF f < 10 THEN <<"0", "0">> ELSE IF f < 100 THEN <<"0">> ELSE <<>>)
                     \o NatChars(f)
    IN (IF n < 0 THEN <<"-">> ELSE <<>>) \o NatChars(a \div 1000) \o <<".">> \o frac

RECURSIVE JoinChars(_, _)
JoinChars(parts, sep) ==
    IF parts = <<>> THEN <<>>
    ELSE IF Len(parts) = 1 THEN parts[1]
    ELSE parts[1] \o sep \o JoinChars(Tail(parts), sep)

\* repr(v); the model's strings hold no quote and no backslash
RECURSIVE Repr(_)
Repr(v) ==
    CASE v.tag = "None" -> <<"N", "o", "n", "e">>
      [] v.tag = "bool" -> IF v.n = 1 THEN <<"T", "r", "u", "e">> ELSE <<"F", "a", "l", "s", "e">>
      [] v.tag = "int" -> IntChars(v.n)
      [] v.tag = "float" -> FloatChars(v.n)
      [] v.tag = "inf" -> IF v.n < 0 THEN <<"-">> \o <<"i", "n", "f">> ELSE <<"i", "n", "f">>
      [] v.tag = "nan" -> <<"n", "a", "n">>
      [] v.tag = "str" -> <<"'">> \o v.s \o <<"'">>
      [] v.tag = "list" ->
           <<"[">> \o JoinChars([i \in 1..Len(v.items) |-> Repr(v.items[i].v)],
                               <<",", " ">>) \o <<"]">>
      [] v.tag = "dict" ->
           <<"{">> \o JoinChars([i \in 1..Len(v.items) |->
                                   <<"'">> \o v.items[i].k \o <<"'", ":", " ">>
                                   \o Repr(v.items[i].v)],
                               <<",", " ">>) \o <<"}">>

\* str(v): a str is itself, any other value is its repr
PyStr(v) == IF v.tag = "str" THEN v.s ELSE Repr(v)

UpperChars == <<"A", "B", "C", "D", "E", "F", "G", "H", "I", "J", "K", "L", "M", "N", "O", "P", "Q", "R", "S", "T", "U", "V", "W", "X", "Y", "Z">>
LowerChars == <<"a", "b", "c", "d", "e", "f", "g", "h", "i", "j", "k", "l", "m", "n", "o", "p", "q", "r", "s", "t", "u", "v", "w", "x", "y", "z">>
LowerChar(c) ==
    IF \E k \in 1..Len(UpperChars) : UpperChars[k] = c
    THEN LowerChars[CHOOSE k \in 1..Len(UpperChars) : UpperChars[k] = c]
    ELSE c
Lower(s) == [i \in 1..Len(s) |-> LowerChar(s[i])]

RECURSIVE RStripEnd(_, _)
RStripEnd(s, j) == IF j >= 1 /\ s[j] \in Whitespace THEN RStripEnd(s, j - 1) ELSE j
Strip(s) == SubSeq(s, SkipWs(s, 1), RStripEnd(s, Len(s)))

\* float(s) of a str: surrounding whitespace, a sign, then inf, infinity or nan
\* in any case, or decimal digits with an optional point and exponent (the
\* model's strings hold no underscore)
FloatOfStr(s) ==
    LET t == Strip(s)
        neg == At(t, 1) = "-"
        p0 == IF At(t, 1) \in {"+", "-"} THEN 2 ELSE 1
        word == Lower(SubSeq(t, p0, Len(t)))
        p1 == DigitRunEnd(t, p0)
        hasDot == At(t, p1) = "."
        p2 == IF hasDot THEN DigitRunEnd(t, p1 + 1) ELSE p1
        ndigits == (p1 - p0) + (IF hasDot THEN p2 - p1 - 1 ELSE 0)
        q == IF At(t, p2 + 1) \in {"+", "-"} THEN p2 + 2 ELSE p2 + 1
        hasExp == At(t, p2) \in {"e", "E"}
        p3 == IF hasExp THEN DigitRunEnd(t, q) ELSE p2
        expv == IF ~hasExp THEN 0
                ELSE IF At(t, p2 + 1) = "-" THEN -DigitsVal(t, q, p3 - 1)
                ELSE DigitsVal(t, q, p3 - 1)
    IN IF word \in {<<"i", "n", "f">>, <<"i", "n", "f", "i", "n", "i", "t", "y">>} THEN Value(IF neg THEN PyNegInf ELSE PyInf)
       ELSE IF word = <<"n", "a", "n">> THEN Value(PyNaN)
       ELSE IF ndigits < 1 \/ (hasExp /\ p3 = q) \/ p3 # Len(t) + 1
            THEN Raised("ValueError")
       ELSE Value(FloatOfParts(neg, DigitsVal(t, p0, p1 - 1), t, p1 + 1, p2 - 1, expv))

\* float(v)
PyFloatOf(v) ==
    CASE v.tag \in {"float", "inf", "nan"} -> Value(v)
      [] v.tag \in {"int", "bool"} -> Value(PyFloat(v.n * 1000))
      [] v.tag = "str" -> FloatOfStr(v.s)
      [] OTHER -> Raised("TypeError")

(***************************************************************************)
(* The state: the module's globals and the process (the module-level       *)
(* statements of main.py), the clients' requests, and one call of chat.    *)
(***************************************************************************)
VARIABLES
    environ,         \* os.environ["GEMINI_API_KEY"]: a str, or None when unset
    line,            \* the line of the module-level statement to execute next
    names,           \* the names bound in the module's namespace
    GEMINI_API_KEY,  \* the module global (Unbound before line 37)
    GEMINI_URL,      \* the module global (Unbound before line 42)
    routes,          \* the routes registered on app
    proc,            \* "loading", "serving" or "exited"
    error,           \* the exception that ended the module load, "" when none
    log,             \* the clients' requests and what each got back
    pc,              \* the statement of chat to execute next
    data,            \* chat's argument: the UnityRequest
    sent,            \* the requests made to the upstream service by this call
    resp,            \* the upstream response
    raw_text,        \* the model's text
    m,               \* the match object, NoMatch for None
    parsed,          \* json.loads(m.group())
    emotion,         \* parsed.get("emotion", {})
    exc,             \* the exception caught at line 142, "" when none
    result,          \* the UnityResponse chat returns
    http             \* what the framework sends to the client

moduleVars == <<environ, line, names, GEMINI_API_KEY, GEMINI_URL, routes, proc, error, log>>
chatVars == <<pc, data, sent, resp, raw_text, m, parsed, emotion, exc, result, http>>
vars == <<environ, line, names, GEMINI_API_KEY, GEMINI_URL, routes, proc, error, log,
          pc, data, sent, resp, raw_text, m, parsed, emotion, exc, result, http>>

Unbound == PyVal("unbound", <<>>, 0, <<>>)

K_message == <<"m", "e", "s", "s", "a", "g", "e">>
K_emotion == <<"e", "m", "o", "t", "i", "o", "n">>
K_joy == <<"j", "o", "y">>
K_anger == <<"a", "n", "g", "e", "r">>
K_sadness == <<"s", "a", "d", "n", "e", "s", "s">>
K_fun == <<"f", "u", "n">>
K_candidates == <<"c", "a", "n", "d", "i", "d", "a", "t", "e", "s">>
K_content == <<"c", "o", "n", "t", "e", "n", "t">>
K_parts == <<"p", "a", "r", "t", "s">>
K_text == <<"t", "e", "x", "t">>

\* the keys of the upstream reply and of the model's JSON object
EmotionFields == <<K_joy, K_anger, K_sadness, K_fun>>

(***************************************************************************)
(* The response models.                                                    *)
(***************************************************************************)
Emotion(joy, anger, sadness, fun) ==
    [joy |-> joy, anger |-> anger, sadness |-> sadness, fun |-> fun]
UnityResponse(message, emo) == [message |-> message, emotion |-> emo]
NoResponse == UnityResponse(<<>>, Emotion(Unbound, Unbound, Unbound, Unbound))

\* the message of the except branch (line 145), its ten Japanese characters
\* written in Latin letters
ErrorMessage == <<"e", "r", "a", "-", "g", "a", " ", "h", "a", "s", "s", "e", "i", " ", "s", "h", "i", "m", "a", "s", "h", "i", "t", "a">>
Fallback ==
    UnityResponse(ErrorMessage, Emotion(PyFloat(0), PyFloat(0), PyFloat(0), PyFloat(0)))

(***************************************************************************)
(* The inputs: the requests of the clients, the behaviours of the upstream *)
(* service and the texts of the model.                                     *)
(***************************************************************************)
\* how many emotion fields of one text hold something else than a number
MaxOdd == 1
\* the longest text over BraceAlphabet
MaxLen == 8
\* how many requests the clients send to one process
MaxRequests == 2
\* the longest GEMINI_API_KEY
MaxKeyLen == 2

Quoted(w) == <<"\"">> \o w \o <<"\"">>
Member(k, lit) == Quoted(k) \o <<":">> \o lit
NonEmpty(parts) ==
    ConcatRange([j \in 1..Len(parts) |-> IF parts[j] = <<>> THEN <<>> ELSE <<parts[j]>>],
                1, Len(parts))
ObjectText(members) == <<"{">> \o JoinChars(NonEmpty(members), <<",">>) \o <<"}">>

\* the literals of an emotion field; <<>> leaves the field out
PlainLiterals == {<<>>, <<"0", ".", "2", "5">>}
OddLiterals ==
    {<<"0", ".", "5">>, <<"1">>, <<"-", "0", ".", "2", "5">>, <<"\"", "0", ".", "5", "\"">>, <<"\"", "a", "b", "c", "\"">>, <<"n", "u", "l", "l">>, <<"t", "r", "u", "e">>, <<"N", "a", "N">>,
     <<"1", "e", "9", "9", "9">>, <<"[", "1", "]">>}
FieldLiterals == PlainLiterals \cup OddLiterals
FieldChoices ==
    {f \in [1..4 -> FieldLiterals] :
        Cardinality({i \in 1..4 : f[i] \notin PlainLiterals}) <= MaxOdd}
EmotionText(f) ==
    ObjectText([i \in 1..4 |->
                  IF f[i] = <<>> THEN <<>> ELSE Member(EmotionFields[i], f[i])])
EmotionTexts == {EmotionText(f) : f \in FieldChoices}

\* the literals of "message" and of an "emotion" that is no object
MessageLiterals ==
    {<<>>, <<"\"", "h", "i", "\"">>, <<"\"", "\"">>, <<"5">>, <<"0", ".", "5">>, <<"t", "r", "u", "e">>, <<"n", "u", "l", "l">>, <<"[", "1", ",", "\"", "a", "\"", "]">>, <<"{", "\"", "k", "\"", ":", "1", "}">>}
OtherEmotions == {<<>>, <<"n", "u", "l", "l">>, <<"5">>, <<"\"", "x", "\"">>, <<"[", "]">>}
Doc(msg, emo) ==
    ObjectText(<<IF msg = <<>> THEN <<>> ELSE Member(K_message, msg),
                 IF emo = <<>> THEN <<>> ELSE Member(K_emotion, emo)>>)
Docs ==
    {Doc(msg, emo) : msg \in MessageLiterals,
                     emo \in {<<>>, <<"{", "\"", "j", "o", "y", "\"", ":", "0", ".", "5", "}">>,
                              <<"{", "\"", "j", "o", "y", "\"", ":", "1", ".", "0", ",", "\"", "a", "n", "g", "e", "r", "\"", ":", "0", ".", "0", ",", "\"", "s", "a", "d", "n", "e", "s", "s", "\"", ":", "0", ".", "0", ",", "\"", "f", "u", "n", "\"", ":", "0", ".", "0", "}">>}}
    \cup {Doc(msg, emo) : msg \in {<<>>, <<"\"", "h", "i", "\"">>},
                          emo \in EmotionTexts \cup OtherEmotions}

\* prose and code fences around the object
Prefixes == {<<>>, <<"b", "l", "a", "h", " ", "b", "l", "a", "h", " ">>, <<"~", "~", "~", "j", "s", "o", "n", "\n">>}
Suffixes == {<<>>, <<" ", "b", "l", "a", "h">>, <<" ", "e", "x", "t", "r", "a", " ", "{", "s", "t", "r", "a", "y", "}">>, <<"\n", "~", "~", "~">>, <<"}">>}
Wrapped ==
    {pre \o doc \o suf :
        pre \in Prefixes, suf \in Suffixes,
        doc \in {<<"{", "\"", "m", "e", "s", "s", "a", "g", "e", "\"", ":", "\"", "h", "i", "\"", ",", "\"", "e", "m", "o", "t", "i", "o", "n", "\"", ":", "{", "\"", "j", "o", "y", "\"", ":", "0", ".", "5", "}", "}">>,
                 <<"{", "\"", "m", "e", "s", "s", "a", "g", "e", "\"", ":", "\"", "o", "k", "\"", ",", "\"", "e", "m", "o", "t", "i", "o", "n", "\"", ":", "{", "\"", "j", "o", "y", "\"", ":", "1", ".", "0", ",", "\"", "a", "n", "g", "e", "r", "\"", ":", "0", ".", "0", ",", "\"", "s", "a", "d", "n", "e", "s", "s", "\"", ":", "0", ".", "0", ",", "\"", "f", "u", "n", "\"", ":", "0", ".", "0", "}", "}">>,
                 <<"{", "\"", "m", "e", "s", "s", "a", "g", "e", "\"", ":", "\"", "h", "i", "\"", ",", "\"", "e", "m", "o", "t", "i", "o", "n", "\"", ":", "{", "\"", "j", "o", "y", "\"", ":", "{", "\"", "a", "\"", ":", "{", "\"", "b", "\"", ":", "1", "}", "}", "}", "}">>}}
OtherTexts ==
    {<<"b", "l", "a", "h">>, <<"{", "\"", "m", "e", "s", "s", "a", "g", "e", "\"", ":", "\"", "a", "}", "b", "\"", "}">>, <<"{", "\"", "m", "e", "s", "s", "a", "g", "e", "\"", ":", "\"", "a", "{", "b", "\"", "}">>, <<"{", "\"", "m", "e", "s", "s", "a", "g", "e", "\"", ":", "\"", "h", "i", "\"">>,
     <<"{", "m", "e", "s", "s", "a", "g", "e", ":", "\"", "h", "i", "\"", "}">>, <<"{", "\"", "m", "e", "s", "s", "a", "g", "e", "\"", ":", "\"", "h", "i", "\"", ",", "}">>, <<"{", "\"", "m", "e", "s", "s", "a", "g", "e", "\"", ":", "\"", "h", "i", "\"", "}", " ", "{", "\"", "m", "e", "s", "s", "a", "g", "e", "\"", ":", "\"", "y", "o", "\"", "}">>,
     <<"{", "{", "\"", "m", "e", "s", "s", "a", "g", "e", "\"", ":", "\"", "h", "i", "\"", "}", "}">>, <<"{", "\"", "a", "\"", ":", "{", "\"", "b", "\"", ":", "{", "\"", "c", "\"", ":", "{", "\"", "d", "\"", ":", "1", "}", "}", "}", "}">>, <<"}", "{">>, <<"{", "b", "l", "a", "h", "}">>,
     <<"{", "\n", " ", " ", "\"", "m", "e", "s", "s", "a", "g", "e", "\"", ":", " ", "\"", "h", "i", "\"", ",", "\n", " ", " ", "\"", "e", "m", "o", "t", "i", "o", "n", "\"", ":", " ", "{", "\n", " ", " ", " ", " ", "\"", "j", "o", "y", "\"", ":", " ", "0", ".", "5", "\n", " ", " ", "}", "\n", "}">>}
ModelTexts == Docs \cup Wrapped \cup OtherTexts

\* every text of braces and line breaks, to MaxLen characters
BraceAlphabet == {"{", "}", "\n"}
BraceTexts == UNION {[1..k -> BraceAlphabet] : k \in 0..MaxLen}

\* the upstream reply {"candidates":[{"content":{"parts":[part]}}]}
Entry(k, v) == [k |-> k, v |-> v]
Candidates(parts) ==
    PyDict(<<Entry(K_candidates,
                   PyList(<<PyDict(<<Entry(K_content,
                                           PyDict(<<Entry(K_parts, parts)>>))>>)>>))>>)
Reply(text) == Candidates(PyList(<<PyDict(<<Entry(K_text, text)>>)>>))
\* replies of another shape
OtherReplies ==
    {PyDict(<<>>), PyNone, PyInt(5), PyList(<<>>), PyList(<<PyStrOf(K_candidates)>>),
     PyStrOf(K_candidates),
     PyDict(<<Entry(K_candidates, PyList(<<>>))>>),
     PyDict(<<Entry(K_candidates, PyNone)>>),
     PyDict(<<Entry(K_candidates, PyStrOf(K_text))>>),
     PyDict(<<Entry(K_candidates, PyList(<<PyDict(<<>>)>>))>>),
     PyDict(<<Entry(K_candidates, PyList(<<PyDict(<<Entry(K_content, PyDict(<<>>))>>)>>))>>),
     Candidates(PyList(<<>>)), Candidates(PyNone),
     Candidates(PyList(<<PyDict(<<>>)>>)), Candidates(PyList(<<PyStrOf(K_text)>>)),
     Reply(PyStrOf(<<>>)), Reply(PyNone), Reply(PyInt(5)), Reply(PyInt(0))}

\* what requests.post does: it raises, or returns a response with a status
\* and a body that is JSON (json) or is not
Raises(e) == [kind |-> "raise", exc |-> e, status_code |-> 0, isJson |-> FALSE, json |-> PyNone]
Response(status, isJson, json) ==
    [kind |-> "response", exc |-> "", status_code |-> status, isJson |-> isJson, json |-> json]
NoResp == Response(0, FALSE, PyNone)
GoodReply == Reply(PyStrOf(<<"{", "\"", "m", "e", "s", "s", "a", "g", "e", "\"", ":", "\"", "h", "i", "\"", ",", "\"", "e", "m", "o", "t", "i", "o", "n", "\"", ":", "{", "\"", "j", "o", "y", "\"", ":", "0", ".", "5", "}", "}">>))
UpstreamOutcomes ==
    {Raises(e) : e \in {"ConnectionError", "Timeout"}}
    \cup {Response(200, FALSE, PyNone)}
    \cup {Response(200, TRUE, g) : g \in OtherReplies}
    \cup {Response(200, TRUE, Reply(PyStrOf(t))) : t \in ModelTexts}
    \cup {Response(st, j, GoodReply) : st \in {201, 304, 404, 429, 500, 503},
                                       j \in BOOLEAN}

Requests ==
    {[text |-> t, basePrompt |-> b] : t \in {"hello", ""}, b \in {"You are a cat."}}

(***************************************************************************)
(* chat, lines 68-152, one action for each group of statements.            *)
(***************************************************************************)
\* the f-string of lines 69-87: the segments of the prompt, in order (the
\* Japanese sentences of the template are given in English)
full_prompt(d) ==
    <<"\n", d.basePrompt, "\n\nuser input:\n", d.text,
      "\n\nJSON only, numbers in 0.0 .. 1.0\n\n",
      "{\"message\": \"string\", \"emotion\": {\"joy\": 0.0, \"anger\": 0.0, \"sadness\": 0.0, \"fun\": 0.0}}\n">>
\* lines 89-97
payload(d) == [contents |-> <<[parts |-> <<[text |-> full_prompt(d)]>>]>>]

UrlBase == "https://generativelanguage.googleapis.com/v1/models/gemini-2.5-flash:generateContent?key="
\* the timeout of requests.post, in seconds
Timeout == 30

\* the call starts: every variable of the previous call is reset
StartChat(d) ==
    /\ data' = d
    /\ sent' = <<>>
    /\ resp' = NoResp
    /\ raw_text' = Unbound
    /\ m' = NoMatch
    /\ parsed' = Unbound
    /\ emotion' = Unbound
    /\ exc' = ""
    /\ result' = NoResponse
    /\ http' = [status_code |-> 0, body |-> NoResponse]
    /\ pc' = "post"

\* chat(data), line 68
Receive(d) ==
    /\ pc \in {"idle", "done"}
    /\ StartChat(d)
    /\ UNCHANGED moduleVars

\* RaisesForStatus as it would be if only the server errors raised
RaisesForServerError(status) == 500 <= status /\ status < 600

\* resp.raise_for_status(): HTTPError for a 4xx or a 5xx status
RaisesForStatus(status) == 400 <= status /\ status < 600

\* lines 100-105: requests.post and resp.raise_for_status
Post ==
    /\ pc = "post"
    /\ \E u \in UpstreamOutcomes :
         /\ sent' = Append(sent, [url |-> GEMINI_URL, json |-> payload(data),
                                  timeout |-> Timeout])
         /\ IF u.kind = "raise"
            THEN exc' = u.exc /\ pc' = "except" /\ resp' = resp
            ELSE /\ resp' = u
                 /\ IF RaisesForStatus(u.status_code)
                    THEN exc' = "HTTPError" /\ pc' = "except"
                    ELSE exc' = exc /\ pc' = "read"
    /\ UNCHANGED <<data, raw_text, m, parsed, emotion, result, http>>
    /\ UNCHANGED moduleVars

\* lines 107-114: the text of the first part of the first candidate, or the
\* exception the statements raise
ReplyText(r) ==
    LET has == Contains(K_candidates, r.json)
        cands == SubscriptKey(r.json, K_candidates)
        first == SubscriptZero(cands.v)
        content == SubscriptKey(first.v, K_content)
        parts == SubscriptKey(content.v, K_parts)
        part == SubscriptZero(parts.v)
        text == GetMethod(part.v, K_text, PyStrOf(<<>>))
    IN IF ~r.isJson THEN Raised("JSONDecodeError")
       ELSE IF ~has.ok THEN has
       ELSE IF has.v = PyFalse THEN Raised("ValueError")
       ELSE IF ~cands.ok THEN cands
       ELSE IF ~Truthy(cands.v) THEN Raised("ValueError")
       ELSE IF ~first.ok THEN first
       ELSE IF ~content.ok THEN content
       ELSE IF ~parts.ok THEN parts
       ELSE IF ~part.ok THEN part
       ELSE IF ~text.ok THEN text
       ELSE IF ~Truthy(text.v) THEN Raised("ValueError")
       ELSE text

ReadReply ==
    /\ pc = "read"
    /\ \E t \in {ReplyText(resp)} :
          IF t.ok
          THEN raw_text' = t.v /\ pc' = "extract" /\ exc' = exc
          ELSE raw_text' = raw_text /\ pc' = "except" /\ exc' = t.exc
    /\ UNCHANGED <<data, sent, resp, m, parsed, emotion, result, http>>
    /\ UNCHANGED moduleVars

\* re.search(pattern, text, re.DOTALL) of lines 117-121 and of line 123; re
\* names the pattern of the match, as m.re does
Named(match, name) == IF match.found THEN [match EXCEPT !.re = name] ELSE NoMatch
BalancedSearch(text) == Named(ReSearch(BalancedRe(text)), "balanced")
GreedySearch(text) == Named(ReSearch(GreedyRe(text)), "greedy")

\* lines 117-123
Search(text) ==
    IF BalancedSearch(text).found THEN BalancedSearch(text) ELSE GreedySearch(text)

\* lines 117-127; re.search raises TypeError for a text that is no str
Extract ==
    /\ pc = "extract"
    /\ IF raw_text.tag # "str"
       THEN m' = m /\ exc' = "TypeError" /\ pc' = "except"
       ELSE /\ m' = Search(raw_text.s)
            /\ IF m'.found
               THEN exc' = exc /\ pc' = "loads"
               ELSE exc' = "ValueError" /\ pc' = "except"
    /\ UNCHANGED <<data, sent, resp, raw_text, parsed, emotion, result, http>>
    /\ UNCHANGED moduleVars

\* Decode as it would be if a span that is no JSON were read as an empty
\* object instead of raising
DecodeLenient ==
    /\ pc = "loads"
    /\ \E r \in {JsonLoads(Group(raw_text.s, m))} :
          IF ~r.ok
          THEN parsed' = PyDict(<<>>) /\ emotion' = PyDict(<<>>) /\ pc' = "build" /\ exc' = exc
          ELSE /\ parsed' = r.v
               /\ emotion' = IF HasKey(r.v, K_emotion) THEN Lookup(r.v, K_emotion)
                             ELSE PyDict(<<>>)
               /\ pc' = "build" /\ exc' = exc
    /\ UNCHANGED <<data, sent, resp, raw_text, m, result, http>>
    /\ UNCHANGED moduleVars

\* lines 129-130
Decode ==
    /\ pc = "loads"
    /\ \E r \in {JsonLoads(Group(raw_text.s, m))} :
       \E e \in {GetMethod(r.v, K_emotion, PyDict(<<>>))} :
          IF ~r.ok
          THEN exc' = "JSONDecodeError" /\ pc' = "except" /\ UNCHANGED <<parsed, emotion>>
          ELSE IF ~e.ok
          THEN exc' = e.exc /\ pc' = "except" /\ parsed' = r.v /\ emotion' = emotion
          ELSE parsed' = r.v /\ emotion' = e.v /\ pc' = "build" /\ exc' = exc
    /\ UNCHANGED <<data, sent, resp, raw_text, m, result, http>>
    /\ UNCHANGED moduleVars

\* MessageOf as it would be if a value that is no str gave the empty string
MessageOfStrOnly(p) ==
    IF HasKey(p, K_message) /\ Lookup(p, K_message).tag = "str"
    THEN Lookup(p, K_message).s ELSE <<>>

\* line 133: str(parsed.get("message", ""))
MessageOf(p) == PyStr(GetMethod(p, K_message, PyStrOf(<<>>)).v)

\* EmotionValue as it would be if a value float() rejects gave 0.0
EmotionValueOrZero(e, name) ==
    IF e.tag # "dict" THEN Raised("AttributeError")
    ELSE IF ~HasKey(e, name) \/ ~PyFloatOf(Lookup(e, name)).ok THEN Value(PyFloat(0))
    ELSE PyFloatOf(Lookup(e, name))

\* lines 135-138: float(emotion.get(name, 0.0))
EmotionValue(e, name) ==
    LET g == GetMethod(e, name, PyFloat(0))
    IN IF ~g.ok THEN g ELSE PyFloatOf(g.v)

\* lines 132-140: the arguments are evaluated in order, the first exception
\* ends the statement
Build ==
    /\ pc = "build"
    /\ \E f \in {<<EmotionValue(emotion, K_joy), EmotionValue(emotion, K_anger),
                   EmotionValue(emotion, K_sadness), EmotionValue(emotion, K_fun)>>} :
       \E bad \in {{i \in 1..4 : ~f[i].ok}} :
          IF bad # {}
          THEN /\ exc' = f[CHOOSE i \in bad : \A j \in bad : i <= j].exc
               /\ pc' = "except"
               /\ result' = result
          ELSE /\ result' = UnityResponse(MessageOf(parsed),
                                          Emotion(f[1].v, f[2].v, f[3].v, f[4].v))
               /\ pc' = "send"
               /\ exc' = exc
    /\ UNCHANGED <<data, sent, resp, raw_text, m, parsed, emotion, http>>
    /\ UNCHANGED moduleVars

\* Except as it would be if a failed call were tried once more
ExceptRetry ==
    /\ pc = "except"
    /\ IF Len(sent) < 2
       THEN pc' = "post" /\ result' = result
       ELSE pc' = "send" /\ result' = Fallback
    /\ UNCHANGED <<data, sent, resp, raw_text, m, parsed, emotion, exc, http>>
    /\ UNCHANGED moduleVars

\* lines 142-152
Except ==
    /\ pc = "except"
    /\ result' = Fallback
    /\ pc' = "send"
    /\ UNCHANGED <<data, sent, resp, raw_text, m, parsed, emotion, exc, http>>
    /\ UNCHANGED moduleVars

\* whether every emotion of r is a finite float
AllFinite(r) ==
    /\ r.emotion.joy.tag = "float"
    /\ r.emotion.anger.tag = "float"
    /\ r.emotion.sadness.tag = "float"
    /\ r.emotion.fun.tag = "float"
Nulled(v) == IF v.tag = "float" THEN v ELSE PyNone

\* the response for response_model=UnityResponse (line 67).  JSON has no inf
\* and no nan: the framework's encoder either refuses them (json.dumps with
\* allow_nan=False raises outside chat's try, the client gets 500) or writes
\* null, depending on the installed versions.
Serialized(r) ==
    IF AllFinite(r) THEN {[status_code |-> 200, body |-> r]}
    ELSE {[status_code |-> 500, body |-> NoResponse],
          [status_code |-> 200,
           body |-> UnityResponse(r.message,
                                  Emotion(Nulled(r.emotion.joy), Nulled(r.emotion.anger),
                                          Nulled(r.emotion.sadness), Nulled(r.emotion.fun)))]}

Send ==
    /\ pc = "send"
    /\ \E h \in Serialized(result) : http' = h
    /\ pc' = "done"
    /\ UNCHANGED <<data, sent, resp, raw_text, m, parsed, emotion, exc, result>>
    /\ UNCHANGED moduleVars

(***************************************************************************)
(* The module-level statements, one action for each group; line is the     *)
(* first line of the group to execute next.                                *)
(***************************************************************************)
\* the names lines 2-10 import
Imported ==
    {"os", "re", "json", "logging", "requests", "FastAPI", "CORSMiddleware", "BaseModel"}

\* a module-level statement raised: the interpreter exits
Exit(e) == error' = e /\ proc' = "exited"

\* lines 2-10
Import ==
    /\ proc = "loading" /\ line = 2
    /\ names' = names \cup Imported
    /\ line' = 15
    /\ UNCHANGED <<environ, GEMINI_API_KEY, GEMINI_URL, routes, proc, error, log>>
    /\ UNCHANGED chatVars

\* lines 15-32
CreateApp ==
    /\ proc = "loading" /\ line = 15
    /\ names' = names \cup {"logger", "app"}
    /\ line' = 37
    /\ UNCHANGED <<environ, GEMINI_API_KEY, GEMINI_URL, routes, proc, error, log>>
    /\ UNCHANGED chatVars

\* ReadKey as it would be without the test of lines 38-40
ReadKeyUnchecked ==
    /\ proc = "loading" /\ line = 37
    /\ GEMINI_API_KEY' = environ
    /\ names' = names \cup {"GEMINI_API_KEY"}
    /\ line' = 42
    /\ UNCHANGED <<environ, GEMINI_URL, routes, log, proc, error>>
    /\ UNCHANGED chatVars

\* lines 37-40
ReadKey ==
    /\ proc = "loading" /\ line = 37
    /\ GEMINI_API_KEY' = environ
    /\ names' = names \cup {"GEMINI_API_KEY"}
    /\ IF ~Truthy(environ)
       THEN Exit("RuntimeError") /\ line' = 40
       ELSE line' = 42 /\ UNCHANGED <<proc, error>>
    /\ UNCHANGED <<environ, GEMINI_URL, routes, log>>
    /\ UNCHANGED chatVars

\* lines 42-45
BuildUrl ==
    /\ proc = "loading" /\ line = 42
    /\ GEMINI_URL' = [base |-> UrlBase, key |-> GEMINI_API_KEY.s]
    /\ names' = names \cup {"GEMINI_URL"}
    /\ line' = 50
    /\ UNCHANGED <<environ, GEMINI_API_KEY, routes, proc, error, log>>
    /\ UNCHANGED chatVars

\* lines 50-62
DefineModels ==
    /\ proc = "loading" /\ line = 50
    /\ names' = names \cup {"UnityRequest", "Emotion", "UnityResponse"}
    /\ line' = 67
    /\ UNCHANGED <<environ, GEMINI_API_KEY, GEMINI_URL, routes, proc, error, log>>
    /\ UNCHANGED chatVars

\* a def statement evaluates the annotations of its parameters and the
\* arguments of its decorator: a name that is not bound raises NameError
Unresolved(used) == used \ names

\* lines 67-68: @app.post("/chat", response_model=UnityResponse)
\* def chat(data: UnityRequest)
DefineChat ==
    /\ proc = "loading" /\ line = 67
    /\ IF Unresolved({"app", "UnityResponse", "UnityRequest"}) # {}
       THEN Exit("NameError") /\ UNCHANGED <<names, routes, line>>
       ELSE /\ routes' = routes \cup {<<"POST", "/chat">>}
            /\ names' = names \cup {"chat"}
            /\ line' = 157
            /\ UNCHANGED <<proc, error>>
    /\ UNCHANGED <<environ, GEMINI_API_KEY, GEMINI_URL, log>>
    /\ UNCHANGED chatVars

\* lines 157-159: @app.api_route("/ping", methods=["GET", "HEAD"])
\* def ping(request: Request); the end of the file follows, and the server
\* starts to serve
DefinePing ==
    /\ proc = "loading" /\ line = 157
    /\ IF Unresolved({"app", "Request"}) # {}
       THEN Exit("NameError") /\ UNCHANGED <<names, routes, line>>
       ELSE /\ routes' = routes \cup {<<"GET", "/ping">>, <<"HEAD", "/ping">>}
            /\ names' = names \cup {"ping"}
            /\ line' = 160
            /\ proc' = "serving"
            /\ error' = error
    /\ UNCHANGED <<environ, GEMINI_API_KEY, GEMINI_URL, log>>
    /\ UNCHANGED chatVars

\* a client sends a request: a process that does not serve refuses the
\* connection; a serving one answers /ping (line 159) and calls chat for /chat
ClientRequest(method, path, d) ==
    /\ Len(log) < MaxRequests
    /\ LET served == proc = "serving" /\ <<method, path>> \in routes
           entry == [method |-> method, path |-> path, proc |-> proc,
                     outcome |-> IF ~served THEN "refused"
                                 ELSE IF path = "/ping" THEN "answered" ELSE "called",
                     status_code |-> IF served /\ path = "/ping" THEN 200 ELSE 0,
                     body |-> IF served /\ path = "/ping" THEN "{\"status\":\"ok\"}" ELSE ""]
       IN /\ log' = Append(log, entry)
          /\ IF served /\ path = "/chat" /\ pc \in {"idle", "done"}
             THEN StartChat(d)
             ELSE UNCHANGED chatVars
    /\ UNCHANGED <<environ, line, names, GEMINI_API_KEY, GEMINI_URL, routes, proc, error>>

(***************************************************************************)
(* The specifications.                                                     *)
(***************************************************************************)
IdleChat ==
    /\ pc = "idle"
    /\ data = [text |-> "", basePrompt |-> ""]
    /\ sent = <<>>
    /\ resp = NoResp
    /\ raw_text = Unbound
    /\ m = NoMatch
    /\ parsed = Unbound
    /\ emotion = Unbound
    /\ exc = ""
    /\ result = NoResponse
    /\ http = [status_code |-> 0, body |-> NoResponse]

\* the keys of the environment: None (unset), empty, or a short key
Keys == UNION {[1..k -> {"k", "9"}] : k \in 1..MaxKeyLen}
Environs == {PyNone, PyStrOf(<<>>)} \cup {PyStrOf(k) : k \in Keys}

\* SpecLoad: a process that starts with any environment, and its clients
InitLoad ==
    /\ environ \in Environs
    /\ line = 2
    /\ names = {}
    /\ GEMINI_API_KEY = Unbound
    /\ GEMINI_URL = [base |-> "", key |-> <<>>]
    /\ routes = {}
    /\ proc = "loading"
    /\ error = ""
    /\ log = <<>>
    /\ IdleChat

Methods == {"GET", "HEAD", "POST"}
Paths == {"/ping", "/chat"}

NextLoad ==
    \/ Import
    \/ CreateApp
    \/ ReadKey
    \/ BuildUrl
    \/ DefineModels
    \/ DefineChat
    \/ DefinePing
    \/ \E method \in Methods, path \in Paths, d \in Requests :
          <<method, path>> \in {<<"GET", "/ping">>, <<"HEAD", "/ping">>, <<"POST", "/chat">>}
          /\ ClientRequest(method, path, d)

SpecLoad == InitLoad /\ [][NextLoad]_vars

\* the module's state once lines 2-152 have executed with the key k
LoadedTo152(k) ==
    /\ environ = PyStrOf(k)
    /\ line = 157
    /\ names = Imported \cup {"logger", "app", "GEMINI_API_KEY", "GEMINI_URL",
                             "UnityRequest", "Emotion", "UnityResponse", "chat"}
    /\ GEMINI_API_KEY = PyStrOf(k)
    /\ GEMINI_URL = [base |-> UrlBase, key |-> k]
    /\ routes = {<<"POST", "/chat">>}
    /\ proc = "loading"
    /\ error = ""
    /\ log = <<>>

\* Spec: the function chat, called with the globals lines 2-152 bind
Init == LoadedTo152(<<"k">>) /\ IdleChat

Next ==
    \/ \E d \in Requests : Receive(d)
    \/ Post
    \/ ReadReply
    \/ Extract
    \/ Decode
    \/ Build
    \/ Except
    \/ Send

Spec == Init /\ [][Next]_vars

\* SpecExtract: chat at line 117, for every text of braces and every text of
\* the model
\* the texts chat can hold at line 117: none is empty (line 113)
ExtractTexts == (BraceTexts \cup ModelTexts) \ {<<>>}
InitExtract ==
    /\ LoadedTo152(<<"k">>)
    /\ \E t \in ExtractTexts :
         /\ raw_text = PyStrOf(t)
         /\ resp = Response(200, TRUE, Reply(PyStrOf(t)))
    /\ pc = "extract"
    /\ data = [text |-> "hello", basePrompt |-> "You are a cat."]
    /\ sent = <<[url |-> GEMINI_URL, json |-> payload(data), timeout |-> Timeout]>>
    /\ m = NoMatch
    /\ parsed = Unbound
    /\ emotion = Unbound
    /\ exc = ""
    /\ result = NoResponse
    /\ http = [status_code |-> 0, body |-> NoResponse]

NextExtract == Extract

SpecExtract == InitExtract /\ [][NextExtract]_vars

(***************************************************************************)
(* The claims.  chat has returned when pc is "send" or "done" (result is   *)
(* its return value, http is what the client gets once pc is "done"); it   *)
(* returned from line 132 when no exception was caught.                    *)
(***************************************************************************)
Returned == pc \in {"send", "done"}
Built == Returned /\ exc = ""
Answered(r) == [status_code |-> 200, body |-> r]
EmotionOf(r, i) ==
    CASE i = 1 -> r.emotion.joy
      [] i = 2 -> r.emotion.anger
      [] i = 3 -> r.emotion.sadness
      [] i = 4 -> r.emotion.fun

\* C1: every call of chat ends with HTTP 200 and a body whose message is a
\* string and whose four emotions are numbers, whatever the upstream does.
C1_AlwaysOkWithFiveFields ==
    pc = "done" =>
        /\ http.status_code = 200
        /\ \A i \in 1..4 : EmotionOf(http.body, i).tag = "float"

\* the upstream body is {"candidates": [{"content": {"parts": [{"text": t}]}},
\* ...]} with a text t that is not empty
HasList(d, k) ==
    /\ d.tag = "dict" /\ HasKey(d, k)
    /\ Lookup(d, k).tag = "list" /\ Lookup(d, k).items # <<>>
HasDict(d, k) == d.tag = "dict" /\ HasKey(d, k) /\ Lookup(d, k).tag = "dict"
First(d, k) == Lookup(d, k).items[1].v
WellFormedReply(j) ==
    /\ HasList(j, K_candidates)
    /\ HasDict(First(j, K_candidates), K_content)
    /\ HasList(Lookup(First(j, K_candidates), K_content), K_parts)
    /\ First(Lookup(First(j, K_candidates), K_content), K_parts).tag = "dict"
    /\ HasKey(First(Lookup(First(j, K_candidates), K_content), K_parts), K_text)
    /\ Lookup(First(Lookup(First(j, K_candidates), K_content), K_parts), K_text).tag = "str"
    /\ Lookup(First(Lookup(First(j, K_candidates), K_content), K_parts), K_text).s # <<>>
\* a network error, a timeout, or a body of another shape
FailedBesidesStatus ==
    \/ exc \in {"ConnectionError", "Timeout"}
    \/ ~resp.isJson
    \/ ~WellFormedReply(resp.json)

\* C2 as claimed: after a network error, a timeout, a status that is not 2xx,
\* a body without a non-empty candidates list, a candidate without content or
\* parts, or an empty text, chat returns the fixed fallback.
C2_NonSuccessStatusFallsBack ==
    Returned /\ (FailedBesidesStatus \/ resp.status_code \notin 200..299)
        => result = Fallback

\* C2 as amended: the same, for the statuses 400..599 in place of "not 2xx"
\* (a response with any other status is read like a 200).
C2_ClientOrServerErrorFallsBack ==
    Returned /\ (FailedBesidesStatus \/ resp.status_code \in 400..599)
        => /\ result = Fallback
           /\ pc = "done" => http = Answered(Fallback)

C2_Witness ==
    /\ pc = "done"
    /\ resp.status_code = 404 /\ resp.isJson /\ WellFormedReply(resp.json)
    /\ http = Answered(Fallback)

NoOpenBrace(t) == \A i \in 1..Len(t) : t[i] # "{"

\* C3: when the model's text holds no "{", or the span the extractor captured
\* is no JSON, chat returns the fixed fallback, all five fields of it.
C3_NoObjectFallsBack ==
    Returned /\ raw_text.tag = "str"
    /\ (NoOpenBrace(raw_text.s) \/ (m.found /\ ~JsonLoads(Group(raw_text.s, m)).ok))
        => /\ result = Fallback
           /\ pc = "done" => http = Answered(Fallback)

C3_Witness ==
    /\ pc = "done"
    /\ m.found /\ ~JsonLoads(Group(raw_text.s, m)).ok
    /\ http = Answered(Fallback)

\* the braces of t[a..b] that are open: the "{" minus the "}"
OpenBraces(t, a, b) ==
    Cardinality({k \in a..b : t[k] = "{"}) - Cardinality({k \in a..b : t[k] = "}"})
\* the first "{" of t, and the "}" that closes it (0 when there is none)
FirstOpenBrace(t) ==
    IF NoOpenBrace(t) THEN 0
    ELSE CHOOSE i \in 1..Len(t) : t[i] = "{" /\ \A j \in 1..(i - 1) : t[j] # "{"
MatchingBrace(t) ==
    LET a == FirstOpenBrace(t)
        closes == {j \in 1..Len(t) : a > 0 /\ j > a /\ OpenBraces(t, a, j) = 0}
    IN IF closes = {} THEN 0
       ELSE CHOOSE j \in closes : \A k \in closes : j <= k

\* C4: for a text whose first "{" is closed, the extractor captures the span
\* from that "{" to the "}" that closes it, however deep the braces between
\* them nest.
C4_FirstObjectCaptured ==
    pc \in {"loads", "except"} /\ MatchingBrace(raw_text.s) > 0
        => /\ m.found
           /\ m.start = FirstOpenBrace(raw_text.s)
           /\ m.end = MatchingBrace(raw_text.s) + 1

\* the value float() gives for the values of the model's texts it accepts:
\* a number, a bool, the string "0.5"
Accepted(v) ==
    \/ v.tag \in {"int", "float", "bool", "inf", "nan"}
    \/ v = PyStrOf(<<"0", ".", "5">>)
AsFloat(v) ==
    CASE v.tag \in {"float", "inf", "nan"} -> v
      [] v.tag \in {"int", "bool"} -> PyFloat(1000 * v.n)
      [] v = PyStrOf(<<"0", ".", "5">>) -> PyFloat(500)
\* the message of a parsed object whose "message" is absent or a string
PlainMessage(p) == IF HasKey(p, K_message) THEN Lookup(p, K_message).s ELSE <<>>
HasPlainMessage(p) == HasKey(p, K_message) => Lookup(p, K_message).tag = "str"
Parsed == Returned /\ parsed.tag = "dict" /\ emotion.tag = "dict"

\* a value that is absent from the emotion object or is no number in any
\* reading: null, a string that spells no number, a list, an object
NoNumber(e, name) ==
    \/ ~HasKey(e, name)
    \/ Lookup(e, name).tag \in {"None", "list", "dict"}
    \/ Lookup(e, name).tag = "str" /\ ~Accepted(Lookup(e, name))
IsNumber(e, name) ==
    HasKey(e, name) /\ Lookup(e, name).tag \in {"int", "float", "inf", "nan"}

TextOf(v) ==
    CASE v.tag = "str" -> v.s
      [] v = PyInt(5) -> <<"5">>
      [] v = PyFloat(500) -> <<"0", ".", "5">>
      [] v = PyTrue -> <<"T", "r", "u", "e">>
      [] v = PyNone -> <<"N", "o", "n", "e">>
      [] v = PyList(<<PyInt(1), PyStrOf(<<"a">>)>>) ->
           <<"[", "1", ",", " ", "'", "a", "'", "]">>
      [] v = PyDict(<<[k |-> <<"k">>, v |-> PyInt(1)]>>) ->
           <<"{", "'", "k", "'", ":", " ", "1", "}">>
      [] OTHER -> <<"?">>

Logged(path) == {i \in 1..Len(log) : log[i].path = path}
KeyUnset == ~Truthy(environ)

\* C7 as claimed: with the key unset or empty the process keeps running, its
\* /chat requests are answered, and no request goes upstream.
C7_UnsetKeyAnswered ==
    KeyUnset =>
        /\ proc # "exited"
        /\ \A i \in Logged("/chat") : log[i].proc # "loading" => log[i].outcome # "refused"
        /\ sent = <<>>

\* C7 as amended: with the key unset or empty the module raises RuntimeError
\* at line 40 and the process exits before any route is registered: every
\* request is refused, chat is never called and no request goes upstream.
C7_UnsetKeyExits ==
    KeyUnset =>
        /\ line <= 40
        /\ line = 40 <=> proc = "exited"
        /\ proc = "exited" => error = "RuntimeError"
        /\ routes = {}
        /\ \A i \in 1..Len(log) : log[i].outcome = "refused"
        /\ pc = "idle" /\ sent = <<>>

C7_Witness ==
    /\ KeyUnset /\ proc = "exited" /\ error = "RuntimeError" /\ line = 40
    /\ \E i \in Logged("/chat") : log[i].proc = "exited" /\ log[i].outcome = "refused"
    /\ sent = <<>>

\* C8: a call of chat sends exactly one request upstream: none before line
\* 100, one from then on whatever the outcome, and chat returns only after it.
C8_OneUpstreamCall ==
    /\ pc \in {"idle", "post"} => sent = <<>>
    /\ pc \notin {"idle", "post"} =>
          sent = <<[url |-> GEMINI_URL, json |-> payload(data), timeout |-> Timeout]>>

C8_Witness ==
    /\ pc = "done" /\ exc = "Timeout" /\ result = Fallback
    /\ Len(sent) = 1

\* C9: a GET or a HEAD of /ping that reaches a started service whose key is
\* set is answered 200 with {"status":"ok"}.
C9_PingAnswersOk ==
    \A i \in Logged("/ping") :
        Truthy(environ) /\ log[i].proc # "loading"
            => /\ log[i].status_code = 200
               /\ log[i].body = "{\"status\":\"ok\"}"

\* C10: whenever the greedy pattern of line 125 matches a text the balanced
\* pattern of line 117 matches it too, so the match chat decodes is always
\* the balanced one.
C10_GreedyNeverUsed ==
    pc \in {"loads", "except"} =>
        /\ GreedySearch(raw_text.s).found => BalancedSearch(raw_text.s).found
        /\ m.found <=> GreedySearch(raw_text.s).found
        /\ m.found => m = BalancedSearch(raw_text.s)

C10_Witness ==
    /\ pc = "loads" /\ m.re = "balanced"
    /\ GreedySearch(raw_text.s).found
    /\ GreedySearch(raw_text.s).end > m.end
    /\ GreedySearch(raw_text.s).start < m.start
====
